---------------------------- MODULE Spec2Model ----------------------------
(***************************************************************************)
(* A model of the rust_elm327 OBD-II PID decoding library:                 *)
(*   src/src/elm327/decoder.rs  the decode_* formulas                      *)
(*   src/src/elm327/pids.rs     the Pid trait and the mode 0x01 descriptors*)
(*   src/src/bin/main.rs        the example caller                         *)
(* A client constructs descriptors, calls interpret_result and the decode  *)
(* functions, and goes through the registry front end (lookup, dispatch)   *)
(* that the specification describes.                                       *)
(*                                                                         *)
(* Numbers.  u8, u16 and i16 values are integers.  A u32 is a function     *)
(* from bit positions 0..31 (bit 0 the least significant) to {0, 1},       *)
(* because 2^31 does not fit TLC's integers.  An f64 is an   *)
(* exact fraction in lowest terms: rounding of the floating-point          *)
(* operations is not modelled.                                             *)
(***************************************************************************)
EXTENDS Integers, Sequences, FiniteSets, TLC

VARIABLES
  overflow_checks,  \* TRUE: arithmetic overflow panics (debug build); FALSE: it wraps (release build)
  pc,               \* "idle" | "unpack" (inside decode_available_pids) | "done" | "panic"
  pid,              \* the descriptor whose interpret_result runs, or NoPid for a direct call
  input,            \* the raw value handed to the decode operation, with its type: <<"u16", 258>>
  pid_offset,       \* decode_available_pids: its second parameter (the block base)
  offset,           \* decode_available_pids: the loop variable
  available_pids,   \* decode_available_pids: the vector built so far
  result,           \* the value the last call returned, with its type: <<"i16", -40>>
  query,            \* registry front end: the (mode, pid) asked for, or << >>
  payload,          \* registry front end: the raw payload bytes supplied
  outcome           \* "none" | "Found" | "NotFound" | "InvalidLength" | "Decoded"

vars == <<overflow_checks, pc, pid, input, pid_offset, offset, available_pids,
          result, query, payload, outcome>>

---------------------------------------------------------------------------
(* Bounds of the model *)

\* the block bases handed to decode_available_pids range over 0..MaxBlockBase
MaxBlockBase == 7
\* sampled bytes lie within ByteMargin of 0, 128 and 255 (or are a power of two)
ByteMargin == 1
\* payloads handed to the registry front end have 0..MaxPayloadLen bytes
MaxPayloadLen == 5

---------------------------------------------------------------------------
(* Integer helpers *)

RECURSIVE GCD(_, _)
GCD(a, b) == IF b = 0 THEN a ELSE GCD(b, a % b)

Abs(x) == IF x < 0 THEN -x ELSE x

\* x >> n on an unsigned integer
Shr(x, n) == x \div (2 ^ n)

\* a & b on unsigned integers
RECURSIVE BitAnd(_, _)
BitAnd(a, b) ==
  IF a = 0 \/ b = 0 THEN 0
  ELSE (a % 2) * (b % 2) + 2 * BitAnd(a \div 2, b \div 2)

---------------------------------------------------------------------------
(* f64 as exact fractions *)

\* the f64 with value n/d, in lowest terms with a positive denominator
F64(n, d) ==
  LET s == IF d < 0 THEN -1 ELSE 1
      g == GCD(Abs(n), Abs(d))
  IN  [num |-> (s * n) \div g, den |-> (s * d) \div g]

\* x as f64
AsF64(x) == F64(x, 1)

F64Add(a, b) == F64(a.num * b.den + b.num * a.den, a.den * b.den)
F64Sub(a, b) == F64(a.num * b.den - b.num * a.den, a.den * b.den)
F64Mul(a, b) == F64(a.num * b.num, a.den * b.den)
F64Div(a, b) == F64(a.num * b.den, a.den * b.num)
F64Le(a, b)  == a.num * b.den <= b.num * a.den

---------------------------------------------------------------------------
(* u32 as bit vectors *)

Bits32 == 0..31

\* the u32 whose big-endian bytes are a, b, c, d (the hex literal 0xAABBCCDD)
U32FromBytes(a, b, c, d) ==
  LET bytes == <<d, c, b, a>>
  IN  [i \in Bits32 |-> (bytes[(i \div 8) + 1] \div (2 ^ (i % 8))) % 2]

\* a small integer literal as u32
U32(x) == U32FromBytes(0, 0, (x \div 256) % 256, x % 256)

\* 2u32.pow(e)
U32Pow2(e) == [i \in Bits32 |-> IF i = e THEN 1 ELSE 0]

\* w >> n
Shr32(w, n) == [i \in Bits32 |-> IF i + n <= 31 THEN w[i + n] ELSE 0]

\* a & b
And32(a, b) == [i \in Bits32 |-> a[i] * b[i]]

\* w != 0
NonZero32(w) == \E i \in Bits32 : w[i] = 1

\* the value of a u32 known to be below 2^16
RECURSIVE U32Low(_, _)
U32Low(w, i) == IF i > 15 THEN 0 ELSE w[i] * (2 ^ i) + U32Low(w, i + 1)
U32ToInt(w) == U32Low(w, 0)

---------------------------------------------------------------------------
(* The Pid trait and the mode 0x01 descriptors (pids.rs) *)

\* Option<T>
None == << >>
Some(x) == <<x>>

\* ResultSize::Value(n) and ResultSize::Range(lo, hi)
Value(n) == [kind |-> "Value", lo |-> n, hi |-> n]
Range(lo, hi) == [kind |-> "Range", lo |-> lo, hi |-> hi]

\* an ObdStandard variant without payload, and ObdStandard::Value(n)
Obd(name) == <<name>>
ObdValue(n) == <<"Value", n>>

\* one name per unit struct implementing Pid, in source order
Pids ==
  { "AvailablePids20", "StatusSinceDTC", "FreezeDTC", "FuelSystemStatus", "EngineLoad",
    "EngineCoolantTemperature", "ShortTermFuelTrim1", "LongTermFuelTrim1",
    "ShortTermFuelTrim2", "LongTermFuelTrim2", "FuelPressure",
    "IntakeManifoldAbsolutePressure", "EngineSpeed", "VehicleSpeed", "TimingAdvance",
    "IntakeAirTemperature", "MAFSensor", "ThrottlePosition",
    "CommendedSecondaryAirStatus", "OxygenSensorPresent", "OxygenSensor1",
    "OxygenSensor2", "OxygenSensor3", "OxygenSensor4", "OxygenSensor5", "OxygenSensor6",
    "OxygenSensor7", "OxygenSensor8", "ObdStandardForThisVehicle",
    "OxygenSensorPresent4Banks", "AuxiliaryInputStatus", "RunTimeSinceStart",
    "AvailablePids40", "DistanceWithMIL", "FuelRailPressure", "FuelRailGaugePressure",
    "OxygenSensorLambda1", "OxygenSensorLambda2", "OxygenSensorLambda3",
    "OxygenSensorLambda4", "OxygenSensorLambda5", "OxygenSensorLambda6",
    "OxygenSensorLambda7", "OxygenSensorLambda8", "CommandedEGR", "EGRError",
    "CommandedEvaporativePurge", "FuelTankLevelInput" }

\* no descriptor: a decode function called directly
NoPid == "NoPid"

\* fn mode_number of each impl
ModeTable ==
  [ AvailablePids20 |-> 1, StatusSinceDTC |-> 1, FreezeDTC |-> 1, FuelSystemStatus |-> 1,
    EngineLoad |-> 1, EngineCoolantTemperature |-> 1, ShortTermFuelTrim1 |-> 1, LongTermFuelTrim1 |-> 1,
    ShortTermFuelTrim2 |-> 1, LongTermFuelTrim2 |-> 1, FuelPressure |-> 1, IntakeManifoldAbsolutePressure |-> 1,
    EngineSpeed |-> 1, VehicleSpeed |-> 1, TimingAdvance |-> 1, IntakeAirTemperature |-> 1,
    MAFSensor |-> 1, ThrottlePosition |-> 1, CommendedSecondaryAirStatus |-> 1, OxygenSensorPresent |-> 1,
    OxygenSensor1 |-> 1, OxygenSensor2 |-> 1, OxygenSensor3 |-> 1, OxygenSensor4 |-> 1,
    OxygenSensor5 |-> 1, OxygenSensor6 |-> 1, OxygenSensor7 |-> 1, OxygenSensor8 |-> 1,
    ObdStandardForThisVehicle |-> 1, OxygenSensorPresent4Banks |-> 1, AuxiliaryInputStatus |-> 1, RunTimeSinceStart |-> 1,
    AvailablePids40 |-> 1, DistanceWithMIL |-> 1, FuelRailPressure |-> 1, FuelRailGaugePressure |-> 1,
    OxygenSensorLambda1 |-> 1, OxygenSensorLambda2 |-> 1, OxygenSensorLambda3 |-> 1, OxygenSensorLambda4 |-> 1,
    OxygenSensorLambda5 |-> 1, OxygenSensorLambda6 |-> 1, OxygenSensorLambda7 |-> 1, OxygenSensorLambda8 |-> 1,
    CommandedEGR |-> 1, EGRError |-> 1, CommandedEvaporativePurge |-> 1, FuelTankLevelInput |-> 1 ]

\* fn pid_number of each impl
PidTable ==
  [ AvailablePids20 |-> 0, StatusSinceDTC |-> 1, FreezeDTC |-> 2, FuelSystemStatus |-> 3,
    EngineLoad |-> 4, EngineCoolantTemperature |-> 5, ShortTermFuelTrim1 |-> 6, LongTermFuelTrim1 |-> 7,
    ShortTermFuelTrim2 |-> 8, LongTermFuelTrim2 |-> 7, FuelPressure |-> 10, IntakeManifoldAbsolutePressure |-> 11,
    EngineSpeed |-> 12, VehicleSpeed |-> 13, TimingAdvance |-> 14, IntakeAirTemperature |-> 15,
    MAFSensor |-> 16, ThrottlePosition |-> 17, CommendedSecondaryAirStatus |-> 18, OxygenSensorPresent |-> 19,
    OxygenSensor1 |-> 20, OxygenSensor2 |-> 21, OxygenSensor3 |-> 22, OxygenSensor4 |-> 23,
    OxygenSensor5 |-> 24, OxygenSensor6 |-> 25, OxygenSensor7 |-> 26, OxygenSensor8 |-> 27,
    ObdStandardForThisVehicle |-> 28, OxygenSensorPresent4Banks |-> 29, AuxiliaryInputStatus |-> 30, RunTimeSinceStart |-> 31,
    AvailablePids40 |-> 32, DistanceWithMIL |-> 33, FuelRailPressure |-> 34, FuelRailGaugePressure |-> 35,
    OxygenSensorLambda1 |-> 36, OxygenSensorLambda2 |-> 37, OxygenSensorLambda3 |-> 38, OxygenSensorLambda4 |-> 39,
    OxygenSensorLambda5 |-> 40, OxygenSensorLambda6 |-> 41, OxygenSensorLambda7 |-> 42, OxygenSensorLambda8 |-> 43,
    CommandedEGR |-> 44, EGRError |-> 45, CommandedEvaporativePurge |-> 46, FuelTankLevelInput |-> 47 ]

\* fn result_size of each impl
SizeTable ==
  [ AvailablePids20 |-> Value(4), StatusSinceDTC |-> Value(4), FreezeDTC |-> Value(2), FuelSystemStatus |-> Value(2),
    EngineLoad |-> Value(1), EngineCoolantTemperature |-> Value(1), ShortTermFuelTrim1 |-> Value(1), LongTermFuelTrim1 |-> Value(1),
    ShortTermFuelTrim2 |-> Value(1), LongTermFuelTrim2 |-> Value(1), FuelPressure |-> Value(1), IntakeManifoldAbsolutePressure |-> Value(1),
    EngineSpeed |-> Value(2), VehicleSpeed |-> Value(1), TimingAdvance |-> Value(1), IntakeAirTemperature |-> Value(1),
    MAFSensor |-> Value(2), ThrottlePosition |-> Value(1), CommendedSecondaryAirStatus |-> Value(1), OxygenSensorPresent |-> Value(1),
    OxygenSensor1 |-> Value(2), OxygenSensor2 |-> Value(2), OxygenSensor3 |-> Value(2), OxygenSensor4 |-> Value(2),
    OxygenSensor5 |-> Value(2), OxygenSensor6 |-> Value(2), OxygenSensor7 |-> Value(2), OxygenSensor8 |-> Value(2),
    ObdStandardForThisVehicle |-> Value(1), OxygenSensorPresent4Banks |-> Value(1), AuxiliaryInputStatus |-> Value(1), RunTimeSinceStart |-> Value(2),
    AvailablePids40 |-> Value(4), DistanceWithMIL |-> Value(2), FuelRailPressure |-> Value(2), FuelRailGaugePressure |-> Value(2),
    OxygenSensorLambda1 |-> Value(4), OxygenSensorLambda2 |-> Value(4), OxygenSensorLambda3 |-> Value(4), OxygenSensorLambda4 |-> Value(4),
    OxygenSensorLambda5 |-> Value(4), OxygenSensorLambda6 |-> Value(4), OxygenSensorLambda7 |-> Value(4), OxygenSensorLambda8 |-> Value(4),
    CommandedEGR |-> Value(1), EGRError |-> Value(1), CommandedEvaporativePurge |-> Value(1), FuelTankLevelInput |-> Value(1) ]

\* type Input of each impl
InputTable ==
  [ AvailablePids20 |-> "u32", StatusSinceDTC |-> "u32", FreezeDTC |-> "u16", FuelSystemStatus |-> "u16",
    EngineLoad |-> "u8", EngineCoolantTemperature |-> "u8", ShortTermFuelTrim1 |-> "u8", LongTermFuelTrim1 |-> "u8",
    ShortTermFuelTrim2 |-> "u8", LongTermFuelTrim2 |-> "u8", FuelPressure |-> "u8", IntakeManifoldAbsolutePressure |-> "u8",
    EngineSpeed |-> "u16", VehicleSpeed |-> "u8", TimingAdvance |-> "u8", IntakeAirTemperature |-> "u8",
    MAFSensor |-> "u16", ThrottlePosition |-> "u8", CommendedSecondaryAirStatus |-> "u8", OxygenSensorPresent |-> "u8",
    OxygenSensor1 |-> "u16", OxygenSensor2 |-> "u16", OxygenSensor3 |-> "u16", OxygenSensor4 |-> "u16",
    OxygenSensor5 |-> "u16", OxygenSensor6 |-> "u16", OxygenSensor7 |-> "u16", OxygenSensor8 |-> "u16",
    ObdStandardForThisVehicle |-> "u8", OxygenSensorPresent4Banks |-> "u8", AuxiliaryInputStatus |-> "u8", RunTimeSinceStart |-> "u16",
    AvailablePids40 |-> "u32", DistanceWithMIL |-> "u16", FuelRailPressure |-> "u16", FuelRailGaugePressure |-> "u16",
    OxygenSensorLambda1 |-> "u32", OxygenSensorLambda2 |-> "u32", OxygenSensorLambda3 |-> "u32", OxygenSensorLambda4 |-> "u32",
    OxygenSensorLambda5 |-> "u32", OxygenSensorLambda6 |-> "u32", OxygenSensorLambda7 |-> "u32", OxygenSensorLambda8 |-> "u32",
    CommandedEGR |-> "u8", EGRError |-> "u8", CommandedEvaporativePurge |-> "u8", FuelTankLevelInput |-> "u8" ]

\* type Output of each impl
OutputTable ==
  [ AvailablePids20 |-> "Vec<PidLen>", StatusSinceDTC |-> "u32", FreezeDTC |-> "()",
    FuelSystemStatus |-> "(FuelSystem,FuelSystem)", EngineLoad |-> "f64", EngineCoolantTemperature |-> "i16",
    ShortTermFuelTrim1 |-> "f64", LongTermFuelTrim1 |-> "f64", ShortTermFuelTrim2 |-> "f64",
    LongTermFuelTrim2 |-> "f64", FuelPressure |-> "u16", IntakeManifoldAbsolutePressure |-> "u8",
    EngineSpeed |-> "f64", VehicleSpeed |-> "u8", TimingAdvance |-> "f64",
    IntakeAirTemperature |-> "i16", MAFSensor |-> "f64", ThrottlePosition |-> "f64",
    CommendedSecondaryAirStatus |-> "AirStatus", OxygenSensorPresent |-> "()", OxygenSensor1 |-> "(f64,f64)",
    OxygenSensor2 |-> "(f64,f64)", OxygenSensor3 |-> "(f64,f64)", OxygenSensor4 |-> "(f64,f64)",
    OxygenSensor5 |-> "(f64,f64)", OxygenSensor6 |-> "(f64,f64)", OxygenSensor7 |-> "(f64,f64)",
    OxygenSensor8 |-> "(f64,f64)", ObdStandardForThisVehicle |-> "ObdStandard", OxygenSensorPresent4Banks |-> "()",
    AuxiliaryInputStatus |-> "State", RunTimeSinceStart |-> "u16", AvailablePids40 |-> "Vec<PidLen>",
    DistanceWithMIL |-> "u16", FuelRailPressure |-> "f64", FuelRailGaugePressure |-> "u32",
    OxygenSensorLambda1 |-> "(f64,f64)", OxygenSensorLambda2 |-> "(f64,f64)", OxygenSensorLambda3 |-> "(f64,f64)",
    OxygenSensorLambda4 |-> "(f64,f64)", OxygenSensorLambda5 |-> "(f64,f64)", OxygenSensorLambda6 |-> "(f64,f64)",
    OxygenSensorLambda7 |-> "(f64,f64)", OxygenSensorLambda8 |-> "(f64,f64)", CommandedEGR |-> "f64",
    EGRError |-> "f64", CommandedEvaporativePurge |-> "f64", FuelTankLevelInput |-> "f64" ]

\* fn min of each impl
MinTable ==
  [ AvailablePids20 |-> None, StatusSinceDTC |-> None, FreezeDTC |-> None,
    FuelSystemStatus |-> None, EngineLoad |-> Some(F64(0, 10)), EngineCoolantTemperature |-> Some(-40),
    ShortTermFuelTrim1 |-> Some(F64(-1000, 10)), LongTermFuelTrim1 |-> Some(F64(-1000, 10)), ShortTermFuelTrim2 |-> Some(F64(-1000, 10)),
    LongTermFuelTrim2 |-> Some(F64(-1000, 10)), FuelPressure |-> Some(0), IntakeManifoldAbsolutePressure |-> Some(0),
    EngineSpeed |-> Some(F64(0, 10)), VehicleSpeed |-> Some(0), TimingAdvance |-> Some(F64(-640, 10)),
    IntakeAirTemperature |-> Some(-40), MAFSensor |-> Some(F64(0, 10)), ThrottlePosition |-> Some(F64(0, 10)),
    CommendedSecondaryAirStatus |-> None, OxygenSensorPresent |-> None, OxygenSensor1 |-> Some(<<F64(0, 10), F64(-1000, 10)>>),
    OxygenSensor2 |-> Some(<<F64(0, 10), F64(-1000, 10)>>), OxygenSensor3 |-> Some(<<F64(0, 10), F64(-1000, 10)>>), OxygenSensor4 |-> Some(<<F64(0, 10), F64(-1000, 10)>>),
    OxygenSensor5 |-> Some(<<F64(0, 10), F64(-1000, 10)>>), OxygenSensor6 |-> Some(<<F64(0, 10), F64(-1000, 10)>>), OxygenSensor7 |-> Some(<<F64(0, 10), F64(-1000, 10)>>),
    OxygenSensor8 |-> Some(<<F64(0, 10), F64(-1000, 10)>>), ObdStandardForThisVehicle |-> Some(ObdValue(1)), OxygenSensorPresent4Banks |-> None,
    AuxiliaryInputStatus |-> None, RunTimeSinceStart |-> Some(0), AvailablePids40 |-> None,
    DistanceWithMIL |-> Some(0), FuelRailPressure |-> Some(F64(0, 10)), FuelRailGaugePressure |-> Some(0),
    OxygenSensorLambda1 |-> Some(<<F64(0, 10), F64(0, 10)>>), OxygenSensorLambda2 |-> Some(<<F64(0, 10), F64(0, 10)>>), OxygenSensorLambda3 |-> Some(<<F64(0, 10), F64(0, 10)>>),
    OxygenSensorLambda4 |-> Some(<<F64(0, 10), F64(0, 10)>>), OxygenSensorLambda5 |-> Some(<<F64(0, 10), F64(0, 10)>>), OxygenSensorLambda6 |-> Some(<<F64(0, 10), F64(0, 10)>>),
    OxygenSensorLambda7 |-> Some(<<F64(0, 10), F64(0, 10)>>), OxygenSensorLambda8 |-> Some(<<F64(0, 10), F64(0, 10)>>), CommandedEGR |-> Some(F64(0, 10)),
    EGRError |-> Some(F64(-1000, 10)), CommandedEvaporativePurge |-> Some(F64(0, 10)), FuelTankLevelInput |-> Some(F64(0, 10)) ]

\* fn max of each impl
MaxTable ==
  [ AvailablePids20 |-> None, StatusSinceDTC |-> None, FreezeDTC |-> None,
    FuelSystemStatus |-> None, EngineLoad |-> Some(F64(1000, 10)), EngineCoolantTemperature |-> Some(215),
    ShortTermFuelTrim1 |-> Some(F64(992, 10)), LongTermFuelTrim1 |-> Some(F64(992, 10)), ShortTermFuelTrim2 |-> Some(F64(992, 10)),
    LongTermFuelTrim2 |-> Some(F64(992, 10)), FuelPressure |-> Some(765), IntakeManifoldAbsolutePressure |-> Some(255),
    EngineSpeed |-> Some(F64(1638375, 100)), VehicleSpeed |-> Some(255), TimingAdvance |-> Some(F64(635, 10)),
    IntakeAirTemperature |-> Some(215), MAFSensor |-> Some(F64(65535, 100)), ThrottlePosition |-> Some(F64(1000, 10)),
    CommendedSecondaryAirStatus |-> None, OxygenSensorPresent |-> None, OxygenSensor1 |-> Some(<<F64(1275, 1000), F64(992, 10)>>),
    OxygenSensor2 |-> Some(<<F64(1275, 1000), F64(992, 10)>>), OxygenSensor3 |-> Some(<<F64(1275, 1000), F64(992, 10)>>), OxygenSensor4 |-> Some(<<F64(1275, 1000), F64(992, 10)>>),
    OxygenSensor5 |-> Some(<<F64(1275, 1000), F64(992, 10)>>), OxygenSensor6 |-> Some(<<F64(1275, 1000), F64(992, 10)>>), OxygenSensor7 |-> Some(<<F64(1275, 1000), F64(992, 10)>>),
    OxygenSensor8 |-> Some(<<F64(1275, 1000), F64(992, 10)>>), ObdStandardForThisVehicle |-> Some(ObdValue(250)), OxygenSensorPresent4Banks |-> None,
    AuxiliaryInputStatus |-> None, RunTimeSinceStart |-> Some(65535), AvailablePids40 |-> None,
    DistanceWithMIL |-> Some(65535), FuelRailPressure |-> Some(F64(5177265, 1000)), FuelRailGaugePressure |-> Some(655350),
    OxygenSensorLambda1 |-> Some(<<F64(20, 10), F64(80, 10)>>), OxygenSensorLambda2 |-> Some(<<F64(20, 10), F64(80, 10)>>), OxygenSensorLambda3 |-> Some(<<F64(20, 10), F64(80, 10)>>),
    OxygenSensorLambda4 |-> Some(<<F64(20, 10), F64(80, 10)>>), OxygenSensorLambda5 |-> Some(<<F64(20, 10), F64(80, 10)>>), OxygenSensorLambda6 |-> Some(<<F64(20, 10), F64(80, 10)>>),
    OxygenSensorLambda7 |-> Some(<<F64(20, 10), F64(80, 10)>>), OxygenSensorLambda8 |-> Some(<<F64(20, 10), F64(80, 10)>>), CommandedEGR |-> Some(F64(1000, 10)),
    EGRError |-> Some(F64(992, 10)), CommandedEvaporativePurge |-> Some(F64(1000, 10)), FuelTankLevelInput |-> Some(F64(1000, 10)) ]

\* fn unit of each impl (the degree sign is written deg)
UnitTable ==
  [ AvailablePids20 |-> None, StatusSinceDTC |-> None, FreezeDTC |-> None,
    FuelSystemStatus |-> None, EngineLoad |-> Some("%"), EngineCoolantTemperature |-> Some("degC"),
    ShortTermFuelTrim1 |-> Some("%"), LongTermFuelTrim1 |-> Some("%"), ShortTermFuelTrim2 |-> Some("%"),
    LongTermFuelTrim2 |-> Some("%"), FuelPressure |-> Some("kPa"), IntakeManifoldAbsolutePressure |-> Some("kPa"),
    EngineSpeed |-> Some("rpm"), VehicleSpeed |-> Some("km/h"), TimingAdvance |-> Some("deg before TDC"),
    IntakeAirTemperature |-> Some("degC"), MAFSensor |-> Some("grams/sec"), ThrottlePosition |-> Some("%"),
    CommendedSecondaryAirStatus |-> None, OxygenSensorPresent |-> None, OxygenSensor1 |-> Some("(volts, %)"),
    OxygenSensor2 |-> Some("(volts, %)"), OxygenSensor3 |-> Some("(volts, %)"), OxygenSensor4 |-> Some("(volts, %)"),
    OxygenSensor5 |-> Some("(volts, %)"), OxygenSensor6 |-> Some("(volts, %)"), OxygenSensor7 |-> Some("(volts, %)"),
    OxygenSensor8 |-> Some("(volts, %)"), ObdStandardForThisVehicle |-> None, OxygenSensorPresent4Banks |-> None,
    AuxiliaryInputStatus |-> None, RunTimeSinceStart |-> Some("seconds"), AvailablePids40 |-> None,
    DistanceWithMIL |-> Some("km"), FuelRailPressure |-> Some("kPa"), FuelRailGaugePressure |-> Some("kPa"),
    OxygenSensorLambda1 |-> Some("(ratio, volts)"), OxygenSensorLambda2 |-> Some("(ratio, volts)"), OxygenSensorLambda3 |-> Some("(ratio, volts)"),
    OxygenSensorLambda4 |-> Some("(ratio, volts)"), OxygenSensorLambda5 |-> Some("(ratio, volts)"), OxygenSensorLambda6 |-> Some("(ratio, volts)"),
    OxygenSensorLambda7 |-> Some("(ratio, volts)"), OxygenSensorLambda8 |-> Some("(ratio, volts)"), CommandedEGR |-> Some("%"),
    EGRError |-> Some("%"), CommandedEvaporativePurge |-> Some("%"), FuelTankLevelInput |-> Some("%") ]
\* the trait's accessors
mode_number(p) == ModeTable[p]

\* mutant: MAFSensor copies EngineSpeed's pid number
pid_number_copied(p) == IF p = "MAFSensor" THEN 12 ELSE PidTable[p]

\* mutant: the last descriptor is numbered 0xFF
pid_number_last(p) == IF p = "FuelTankLevelInput" THEN 255 ELSE PidTable[p]

pid_number(p)  == PidTable[p]

\* mutant: EngineSpeed declares one byte for its u16 input
result_size_short(p) == IF p = "EngineSpeed" THEN Value(1) ELSE SizeTable[p]

\* mutant: RunTimeSinceStart declares four bytes for its u16 input
result_size_long(p) == IF p = "RunTimeSinceStart" THEN Value(4) ELSE SizeTable[p]

result_size(p) == SizeTable[p]
\* mutant: AuxiliaryInputStatus declares a lower bound for its State output
min_for_state(p) == IF p = "AuxiliaryInputStatus" THEN Some("Off") ELSE MinTable[p]

min(p)         == MinTable[p]
max(p)         == MaxTable[p]
unit(p)        == UnitTable[p]

\* the byte width of an integer type
SizeOf(t) == CASE t = "u8" -> 1 [] t = "u16" -> 2 [] t = "u32" -> 4

\* the byte width of a descriptor's Input type
InputWidth(p) == SizeOf(InputTable[p])

\* the descriptors whose interpret_result calls decode_available_pids, with the
\* block base each passes
AvailablePidsBase == [AvailablePids20 |-> 0, AvailablePids40 |-> 1]
AvailablePidsDescriptors == DOMAIN AvailablePidsBase

---------------------------------------------------------------------------
(* The decode functions (decoder.rs) *)

FuelSystem ==
  { "MotorOff", "OpenLoopInsufficientEngineTemperature",
    "ClosedLoopUsingOxygenSensorFeedback",
    "OpenLoopEngineLoadOrFuelCutDueToDeceleration", "OpenLoopSystemFailure",
    "ClosedLoopFaultFeedbackSystem", "Unknow" }

AirStatus ==
  { "Upstream", "Downstream", "FromTheOutsideAtmosphereOrOff",
    "PumpCommandedOnForDiagnostics", "Unknow" }

\* the variants of ObdStandard that carry no payload
ObdStandardNames ==
  { "Obd2CARB", "ObdEPA", "Obd1and2", "Obd1", "NotObdCompliant", "Eobd",
    "EobdAndObd2", "EobdAndObd", "EobdAndObd2AndObd", "Jobd", "JobdAndObd2",
    "JobdAndEobd", "JobdAndEobdAndObd2", "Emd", "EmdPlus", "HdObdC", "HdObd",
    "WwhObd", "HdEobd1", "HdEobd1N", "HdEobd2", "HdEobd2N", "ObdBr1", "ObdBr2",
    "Kobd", "Iobd1", "Iobd2", "HdEobd6", "NotAvailableForAssignement",
    "Reserved", "Unknow" }

ObdStandard == {Obd(n) : n \in ObdStandardNames} \cup {ObdValue(v) : v \in 0..255}

State == { "On", "Off", "Unknow" }

\* mutant: the subtraction is done in u8 before the widening, and wraps
decode_celsius_wrapping(encoded) == (encoded - 40) % 256

decode_celsius(encoded) == encoded - 40

\* mutant: the arm for 16 is missing, so 16 falls to the wildcard
interpret_one_byte_fuel_short(b) ==
  CASE b = 0  -> "MotorOff"
    [] b = 1  -> "OpenLoopInsufficientEngineTemperature"
    [] b = 2  -> "ClosedLoopUsingOxygenSensorFeedback"
    [] b = 4  -> "OpenLoopEngineLoadOrFuelCutDueToDeceleration"
    [] b = 8  -> "OpenLoopSystemFailure"
    [] OTHER  -> "Unknow"

interpret_one_byte_fuel(b) ==
  CASE b = 0  -> "MotorOff"
    [] b = 1  -> "OpenLoopInsufficientEngineTemperature"
    [] b = 2  -> "ClosedLoopUsingOxygenSensorFeedback"
    [] b = 4  -> "OpenLoopEngineLoadOrFuelCutDueToDeceleration"
    [] b = 8  -> "OpenLoopSystemFailure"
    [] b = 16 -> "ClosedLoopFaultFeedbackSystem"
    [] OTHER  -> "Unknow"

decode_fuel_system(x) ==
  << interpret_one_byte_fuel(BitAnd(x, 255)),
     interpret_one_byte_fuel(Shr(x, 8)) >>

decode_timing_advance(x) == F64Sub(F64Div(AsF64(x), F64(20, 10)), F64(640, 10))

\* mutant: the low byte is added without its mask
RpmSum_unmasked(x) == (Shr(x, 8) * 256) + x

\* ((input>>8)*256) + (input&0xff), computed in u16
RpmSum(x) == (Shr(x, 8) * 256) + BitAnd(x, 255)

decode_rpm(x) == F64Div(AsF64(RpmSum(x)), F64(40, 10))

decode_maf(x) == F64Div(AsF64((Shr(x, 8) * 256) + BitAnd(x, 255)), F64(40, 10))

decode_percent(x) == F64Div(AsF64(x), F64(255, 100))

decode_fuel_trim(x) == F64Sub(F64Div(AsF64(x), F64(128, 100)), F64(1000, 10))

\* mutant: each arm tests its bit instead of comparing the whole byte
decode_air_status_masked(x) ==
  CASE BitAnd(x, 1) # 0 -> "Upstream"
    [] BitAnd(x, 2) # 0 -> "Downstream"
    [] BitAnd(x, 4) # 0 -> "FromTheOutsideAtmosphereOrOff"
    [] BitAnd(x, 8) # 0 -> "PumpCommandedOnForDiagnostics"
    [] OTHER -> "Unknow"

decode_air_status(x) ==
  CASE x = 1 -> "Upstream"
    [] x = 2 -> "Downstream"
    [] x = 4 -> "FromTheOutsideAtmosphereOrOff"
    [] x = 8 -> "PumpCommandedOnForDiagnostics"
    [] OTHER -> "Unknow"

\* mutant: the trim formula is applied to B = 255 as to every other byte
decode_oxygen_sensor_unguarded(x) ==
  LET a == AsF64(Shr(x, 8))
      b == AsF64(BitAnd(x, 255))
  IN  << F64Div(a, F64(2000, 10)),
         F64Sub(F64Div(F64Mul(F64(1000, 10), b), F64(1280, 10)), F64(1000, 10)) >>

decode_oxygen_sensor(x) ==
  LET a == AsF64(Shr(x, 8))
      b == AsF64(BitAnd(x, 255))
  IN  << F64Div(a, F64(2000, 10)),
         IF b # F64(2550, 10)
           THEN F64Sub(F64Div(F64Mul(F64(1000, 10), b), F64(1280, 10)), F64(1000, 10))
           ELSE F64(0, 10) >>

\* mutant: the arm for 18 repeats the variant of 17
decode_obd_standard_swapped(x) ==
  CASE x = 1  -> Obd("Obd2CARB")
    [] x = 2  -> Obd("ObdEPA")
    [] x = 3  -> Obd("Obd1and2")
    [] x = 4  -> Obd("Obd1")
    [] x = 5  -> Obd("NotObdCompliant")
    [] x = 6  -> Obd("Eobd")
    [] x = 7  -> Obd("EobdAndObd2")
    [] x = 8  -> Obd("EobdAndObd")
    [] x = 9  -> Obd("EobdAndObd2AndObd")
    [] x = 10 -> Obd("Jobd")
    [] x = 11 -> Obd("JobdAndObd2")
    [] x = 12 -> Obd("JobdAndEobd")
    [] x = 13 -> Obd("JobdAndEobdAndObd2")
    [] x = 17 -> Obd("Emd")
    [] x = 18 -> Obd("Emd")
    [] x = 19 -> Obd("HdObdC")
    [] x = 20 -> Obd("HdObd")
    [] x = 21 -> Obd("WwhObd")
    [] x = 23 -> Obd("HdEobd1")
    [] x = 24 -> Obd("HdEobd1N")
    [] x = 25 -> Obd("HdEobd2")
    [] x = 26 -> Obd("HdEobd2N")
    [] x = 28 -> Obd("ObdBr1")
    [] x = 29 -> Obd("ObdBr2")
    [] x = 30 -> Obd("Kobd")
    [] x = 31 -> Obd("Iobd1")
    [] x = 32 -> Obd("Iobd2")
    [] x = 33 -> Obd("HdEobd6")
    [] x \in 14..16 \/ x = 22 \/ x = 27 \/ x \in 34..250 -> Obd("Reserved")
    [] x \in 251..255 -> Obd("NotAvailableForAssignement")
    [] x = 0  -> Obd("Unknow")

\* the match has no wildcard arm: every arm is listed, in source order
decode_obd_standard(x) ==
  CASE x = 1  -> Obd("Obd2CARB")
    [] x = 2  -> Obd("ObdEPA")
    [] x = 3  -> Obd("Obd1and2")
    [] x = 4  -> Obd("Obd1")
    [] x = 5  -> Obd("NotObdCompliant")
    [] x = 6  -> Obd("Eobd")
    [] x = 7  -> Obd("EobdAndObd2")
    [] x = 8  -> Obd("EobdAndObd")
    [] x = 9  -> Obd("EobdAndObd2AndObd")
    [] x = 10 -> Obd("Jobd")
    [] x = 11 -> Obd("JobdAndObd2")
    [] x = 12 -> Obd("JobdAndEobd")
    [] x = 13 -> Obd("JobdAndEobdAndObd2")
    [] x = 17 -> Obd("Emd")
    [] x = 18 -> Obd("EmdPlus")
    [] x = 19 -> Obd("HdObdC")
    [] x = 20 -> Obd("HdObd")
    [] x = 21 -> Obd("WwhObd")
    [] x = 23 -> Obd("HdEobd1")
    [] x = 24 -> Obd("HdEobd1N")
    [] x = 25 -> Obd("HdEobd2")
    [] x = 26 -> Obd("HdEobd2N")
    [] x = 28 -> Obd("ObdBr1")
    [] x = 29 -> Obd("ObdBr2")
    [] x = 30 -> Obd("Kobd")
    [] x = 31 -> Obd("Iobd1")
    [] x = 32 -> Obd("Iobd2")
    [] x = 33 -> Obd("HdEobd6")
    [] x \in 14..16 \/ x = 22 \/ x = 27 \/ x \in 34..250 -> Obd("Reserved")
    [] x \in 251..255 -> Obd("NotAvailableForAssignement")
    [] x = 0  -> Obd("Unknow")

\* mutant: the match is on the lowest bit
decode_auxiliary_input_status_low(x) ==
  CASE BitAnd(x, 1) = 0 -> "Off"
    [] BitAnd(x, 1) = 1 -> "On"
    [] OTHER            -> "Unknow"

decode_auxiliary_input_status(x) ==
  CASE Shr(x, 7) = 0 -> "Off"
    [] Shr(x, 7) = 1 -> "On"
    [] OTHER         -> "Unknow"

decode_seconds(x) == 256 * Shr(x, 8) + BitAnd(x, 255)

decode_km(x) == 256 * Shr(x, 8) + BitAnd(x, 255)

decode_fuel_rail_pressure(x) ==
  F64Mul(F64(79, 1000),
         F64Add(F64Mul(F64(2560, 10), AsF64(Shr(x, 8))), AsF64(BitAnd(x, 255))))

decode_fuel_rail_gauge_pressure(x) == 10 * (256 * Shr(x, 8) + BitAnd(x, 255))

decode_oxygen_sensor_lambda(w) ==
  LET a == AsF64(U32ToInt(Shr32(w, 24)))
      b == AsF64(U32ToInt(And32(Shr32(w, 16), U32(255))))
      c == AsF64(U32ToInt(And32(Shr32(w, 8), U32(255))))
      d == AsF64(U32ToInt(And32(w, U32(255))))
  IN  << F64Mul(F64Div(F64(20, 10), F64(655360, 10)), F64Add(F64Mul(F64(2560, 10), a), b)),
         F64Mul(F64Div(F64(80, 10), F64(655360, 10)), F64Add(F64Mul(F64(2560, 10), c), d)) >>

decode_egr_error(x) == F64Sub(F64Div(AsF64(x), F64(128, 100)), F64(1000, 10))

\* the unit value ()
Unit == "()"

\* interpret_result of every descriptor that does not unpack a bitmap
interpret_result(p, x) ==
  CASE p = "StatusSinceDTC" -> x
    [] p \in {"FreezeDTC", "OxygenSensorPresent", "OxygenSensorPresent4Banks"} -> Unit
    [] p = "FuelSystemStatus" -> decode_fuel_system(x)
    [] p \in {"EngineLoad", "ThrottlePosition", "CommandedEGR",
              "CommandedEvaporativePurge", "FuelTankLevelInput"} -> decode_percent(x)
    [] p \in {"EngineCoolantTemperature", "IntakeAirTemperature"} -> decode_celsius(x)
    [] p \in {"ShortTermFuelTrim1", "LongTermFuelTrim1", "ShortTermFuelTrim2",
              "LongTermFuelTrim2"} -> decode_fuel_trim(x)
    [] p = "FuelPressure" -> x * 3
    [] p \in {"IntakeManifoldAbsolutePressure", "VehicleSpeed"} -> x
    [] p = "EngineSpeed" -> decode_rpm(x)
    [] p = "TimingAdvance" -> decode_timing_advance(x)
    [] p = "MAFSensor" -> decode_maf(x)
    [] p = "CommendedSecondaryAirStatus" -> decode_air_status(x)
    [] p \in {"OxygenSensor1", "OxygenSensor2", "OxygenSensor3", "OxygenSensor4",
              "OxygenSensor5", "OxygenSensor6", "OxygenSensor7", "OxygenSensor8"}
         -> decode_oxygen_sensor(x)
    [] p = "ObdStandardForThisVehicle" -> decode_obd_standard(x)
    [] p = "AuxiliaryInputStatus" -> decode_auxiliary_input_status(x)
    [] p = "RunTimeSinceStart" -> decode_seconds(x)
    [] p = "DistanceWithMIL" -> decode_km(x)
    [] p = "FuelRailPressure" -> decode_fuel_rail_pressure(x)
    [] p = "FuelRailGaugePressure" -> decode_fuel_rail_gauge_pressure(x)
    [] p \in {"OxygenSensorLambda1", "OxygenSensorLambda2", "OxygenSensorLambda3",
              "OxygenSensorLambda4", "OxygenSensorLambda5", "OxygenSensorLambda6",
              "OxygenSensorLambda7", "OxygenSensorLambda8"} -> decode_oxygen_sensor_lambda(x)
    [] p = "EGRError" -> decode_egr_error(x)

---------------------------------------------------------------------------
(* decode_available_pids (decoder.rs), one loop iteration per step *)

\* the largest value of PidLen, the type of a PID number (one byte)
PidLenMax == 255

\* let base : u32 = 2u32.pow(31)
base == U32Pow2(31)

\* mutant: the loop's range is 0..31 exclusive, so offset 31 is never pushed
BitIsSet_exclusive(w, off) == off < 31 /\ NonZero32(And32(Shr32(base, off), w))

\* the loop's condition: base>>offset & input != 0
BitIsSet(w, off) == NonZero32(And32(Shr32(base, off), w))

\* offset+1+32*pid_offset overflows PidLen, in the product or in the sum
PidOverflows(off, b) ==
  \/ 32 * b > PidLenMax
  \/ (off + 1) + ((32 * b) % (PidLenMax + 1)) > PidLenMax

\* mutant: the +1 is forgotten
PidAtFromZero(off, b) == (off + ((32 * b) % (PidLenMax + 1))) % (PidLenMax + 1)

\* offset+1+32*pid_offset in wrapping PidLen arithmetic
PidAt(off, b) == ((off + 1) + ((32 * b) % (PidLenMax + 1))) % (PidLenMax + 1)

\* the list the loop has built after the offsets 0..n-1, in wrapping arithmetic
RECURSIVE PushedUpTo(_, _, _)
PushedUpTo(w, b, n) ==
  IF n = 0 THEN << >>
  ELSE IF BitIsSet(w, n - 1)
         THEN Append(PushedUpTo(w, b, n - 1), PidAt(n - 1, b))
         ELSE PushedUpTo(w, b, n - 1)

\* the list decode_available_pids(input, pid_offset) returns when no push panics
decode_available_pids(w, b) == PushedUpTo(w, b, 32)

---------------------------------------------------------------------------
(* The inputs the client draws from *)

EdgeBytes ==
  { b \in 0..255 : \/ b <= ByteMargin
                   \/ b >= 255 - ByteMargin
                   \/ (b >= 128 - ByteMargin /\ b <= 128 + ByteMargin) }
  \cup { 2 ^ k : k \in 0..7 }

CornerBytes == {0, 128, 255}

\* 0xBE1FA813, the word main.rs decodes
ExampleWord == U32FromBytes(190, 31, 168, 19)

\* bitmaps with no, one, all but one and all bits set, and the example
BitmapWords ==
  { [i \in Bits32 |-> 0], [i \in Bits32 |-> 1], ExampleWord }
  \cup { U32Pow2(e) : e \in Bits32 }
  \cup { [i \in Bits32 |-> IF i = e THEN 0 ELSE 1] : e \in Bits32 }

U8Inputs  == 0..255
U16Inputs == { hi * 256 + lo : hi \in EdgeBytes, lo \in EdgeBytes }
U32Inputs ==
  BitmapWords \cup
  { U32FromBytes(a, b, c, d) : a \in CornerBytes, b \in CornerBytes,
                               c \in CornerBytes, d \in CornerBytes }

InputsOf(t) ==
  CASE t = "u8" -> U8Inputs [] t = "u16" -> U16Inputs [] t = "u32" -> U32Inputs

BlockBases == 0..MaxBlockBase

\* no value handed over, no value returned (yet)
NoInput  == <<"none">>
NoResult == <<"none">>

\* the value carried by input or result
Val(v) == v[2]

---------------------------------------------------------------------------
(* The state machine *)

Init ==
  /\ overflow_checks \in BOOLEAN
  /\ pc = "idle"
  /\ pid = NoPid
  /\ input = NoInput
  /\ pid_offset = 0
  /\ offset = 0
  /\ available_pids = << >>
  /\ result = NoResult
  /\ query = << >>
  /\ payload = << >>
  /\ outcome = "none"

\* a new call starts once the previous one has returned and its value was consumed
Ready == pc = "idle"

\* entering decode_available_pids(w, b): available_pids = vec![], offset = 0
EnterUnpack(w, b) ==
  /\ input' = <<"u32", w>>
  /\ pid_offset' = b
  /\ offset' = 0
  /\ available_pids' = << >>
  /\ result' = NoResult
  /\ pc' = "unpack"

\* p.interpret_result(x)
Call(p, x) ==
  /\ pid' = p
  /\ IF p \in AvailablePidsDescriptors
       THEN EnterUnpack(x, AvailablePidsBase[p])
       ELSE /\ input' = <<InputTable[p], x>>
            /\ result' = <<OutputTable[p], interpret_result(p, x)>>
            /\ pc' = "done"
            /\ pid_offset' = 0
            /\ offset' = 0
            /\ available_pids' = << >>

\* the client constructs descriptor p and calls interpret_result (as main.rs does)
Interpret(p, x) ==
  /\ Ready
  /\ Call(p, x)
  /\ query' = << >>
  /\ payload' = << >>
  /\ outcome' = "none"
  /\ UNCHANGED overflow_checks

\* the client calls decode_available_pids(w, b) directly
CallDecodeAvailablePids(w, b) ==
  /\ Ready
  /\ pid' = NoPid
  /\ EnterUnpack(w, b)
  /\ query' = << >>
  /\ payload' = << >>
  /\ outcome' = "none"
  /\ UNCHANGED overflow_checks

\* one iteration of  for offset in 0..=31 { if ... { available_pids.push(...) } }
UnpackStep ==
  /\ pc = "unpack"
  /\ offset <= 31
  /\ IF BitIsSet(Val(input), offset)
       THEN IF PidOverflows(offset, pid_offset) /\ overflow_checks
              THEN /\ pc' = "panic"
                   /\ UNCHANGED <<offset, available_pids>>
              ELSE /\ available_pids' = Append(available_pids, PidAt(offset, pid_offset))
                   /\ offset' = offset + 1
                   /\ pc' = pc
       ELSE /\ offset' = offset + 1
            /\ UNCHANGED <<pc, available_pids>>
  /\ UNCHANGED <<overflow_checks, pid, input, pid_offset, result, query, payload, outcome>>

\* the loop is over: return available_pids
UnpackReturn ==
  /\ pc = "unpack"
  /\ offset = 32
  /\ result' = <<"Vec<PidLen>", available_pids>>
  /\ pc' = "done"
  /\ UNCHANGED <<overflow_checks, pid, input, pid_offset, offset, available_pids,
                 query, payload, outcome>>

\* the client has consumed the returned value and is ready for its next call
Return ==
  /\ pc = "done"
  /\ pc' = "idle"
  /\ pid' = NoPid
  /\ input' = NoInput
  /\ pid_offset' = 0
  /\ offset' = 0
  /\ available_pids' = << >>
  /\ result' = NoResult
  /\ query' = << >>
  /\ payload' = << >>
  /\ outcome' = "none"
  /\ UNCHANGED overflow_checks

---------------------------------------------------------------------------
(* The registry front end: lookup and dispatch *)

Modes == {1, 2}
QueryPids == 0..255
PayloadBytes == {0, 255}
Payloads == UNION { [1..n -> PayloadBytes] : n \in 0..MaxPayloadLen }

\* the descriptors registered under (m, q)
lookup(m, q) == { p \in Pids : mode_number(p) = m /\ pid_number(p) = q }

\* a payload of n bytes agrees with the declared result size
SizeAccepts(rs, n) == rs.lo <= n /\ n <= rs.hi

ByteAt(bytes, i) == IF i <= Len(bytes) THEN bytes[i] ELSE 0

\* the payload read big-endian as the descriptor's Input
FromPayload(p, bytes) ==
  CASE InputTable[p] = "u8"  -> ByteAt(bytes, 1)
    [] InputTable[p] = "u16" -> ByteAt(bytes, 1) * 256 + ByteAt(bytes, 2)
    [] InputTable[p] = "u32" ->
         U32FromBytes(ByteAt(bytes, 1), ByteAt(bytes, 2), ByteAt(bytes, 3), ByteAt(bytes, 4))

\* nothing was decoded
NoCall ==
  /\ input' = NoInput
  /\ pid_offset' = 0
  /\ offset' = 0
  /\ available_pids' = << >>
  /\ result' = NoResult
  /\ pc' = "done"

\* registry.lookup(m, q)
Lookup(m, q) ==
  /\ Ready
  /\ query' = <<m, q>>
  /\ payload' = << >>
  /\ IF lookup(m, q) = {}
       THEN pid' = NoPid /\ outcome' = "NotFound"
       ELSE \E p \in lookup(m, q) : pid' = p /\ outcome' = "Found"
  /\ NoCall
  /\ UNCHANGED overflow_checks

\* the caller supplies (mode, pid, raw bytes): resolve, validate the width, decode
Dispatch(m, q, bytes) ==
  /\ Ready
  /\ query' = <<m, q>>
  /\ payload' = bytes
  /\ IF lookup(m, q) = {}
       THEN pid' = NoPid /\ outcome' = "NotFound" /\ NoCall
       ELSE \E p \in lookup(m, q) :
              IF SizeAccepts(result_size(p), Len(bytes))
                THEN outcome' = "Ok" /\ Call(p, FromPayload(p, bytes))
                ELSE pid' = p /\ outcome' = "InvalidLength" /\ NoCall
  /\ UNCHANGED overflow_checks

---------------------------------------------------------------------------

Next ==
  \/ Ready /\ \E p \in Pids : \E x \in InputsOf(InputTable[p]) : Interpret(p, x)
  \/ Ready /\ \E w \in BitmapWords : \E b \in BlockBases : CallDecodeAvailablePids(w, b)
  \/ UnpackStep
  \/ UnpackReturn
  \/ Return
  \/ Ready /\ \E m \in Modes : \E q \in QueryPids : Lookup(m, q)
  \/ Ready /\ \E m \in Modes : \E q \in QueryPids : \E bytes \in Payloads :
                Dispatch(m, q, bytes)

Spec == Init /\ [][Next]_vars

---------------------------------------------------------------------------
(* Properties *)

\* an interpret_result or decode call has returned a value
Decoded == pc = "done" /\ outcome \in {"none", "Ok"}

\* decode_available_pids has returned
UnpackDone == Decoded /\ (pid = NoPid \/ pid \in AvailablePidsDescriptors)

\* the elements of a sequence
Elems(s) == { s[i] : i \in 1..Len(s) }

StrictlyAscending(s) == \A i \in 1..Len(s) : \A j \in 1..Len(s) : i < j => s[i] < s[j]

\* C1: for every input word and block base b in 0..6, the list returned by
\* decode_available_pids holds 32*b + k (k in 1..32) exactly when bit 32 - k of
\* the word is set, and nothing else; 0xBE1FA813 with b = 0 yields
\* [1, 3, 4, 5, 6, 7, 12, 13, 14, 15, 16, 17, 19, 21, 28, 31, 32].
C1_BitmapUnpacksMsbFirst ==
  (UnpackDone /\ pid_offset <= 6) =>
    /\ \A k \in 1..32 :
         (32 * pid_offset + k \in Elems(Val(result))) <=> (Val(input)[32 - k] = 1)
    /\ Elems(Val(result)) \subseteq { 32 * pid_offset + k : k \in 1..32 }
    /\ (Val(input) = ExampleWord /\ pid_offset = 0) =>
         Val(result) = <<1, 3, 4, 5, 6, 7, 12, 13, 14, 15, 16, 17, 19, 21, 28, 31, 32>>

\* C1 witness: the example word was unpacked with block base 6
C1_Witness ==
  /\ UnpackDone
  /\ pid = NoPid
  /\ pid_offset = 6
  /\ Val(input) = ExampleWord
  /\ Len(Val(result)) = 17
  /\ Val(result)[1] = 193

\* C2: for every input and every block base, the list decode_available_pids
\* builds is strictly ascending after every loop iteration and when returned.
C2_UnpackedListAscending ==
  /\ (pc \in {"unpack", "panic"}) => StrictlyAscending(available_pids)
  /\ UnpackDone => StrictlyAscending(Val(result))

\* C3: no two distinct mode 0x01 descriptors report the same (mode, pid).
C3_ModePidPairsUnique ==
  (pid \in Pids) =>
    \A p \in Pids :
      (mode_number(p) = mode_number(pid) /\ pid_number(p) = pid_number(pid)) => p = pid

\* lo <= v <= hi for a decoded value of the given Output type, component-wise
\* for pairs; an ObdStandard lies in the range only as a Value(n) inside it
Within(kind, lo, v, hi) ==
  CASE kind = "f64" -> F64Le(lo, v) /\ F64Le(v, hi)
    [] kind = "(f64,f64)" ->
         /\ F64Le(lo[1], v[1]) /\ F64Le(v[1], hi[1])
         /\ F64Le(lo[2], v[2]) /\ F64Le(v[2], hi[2])
    [] kind = "ObdStandard" -> v[1] = "Value" /\ lo[2] <= v[2] /\ v[2] <= hi[2]
    [] OTHER -> lo <= v /\ v <= hi

\* a descriptor with declared bounds has returned a value
DecodedWithBounds ==
  Decoded /\ pid \in Pids /\ min(pid) # None /\ max(pid) # None

\* C4: for every descriptor with min() and max() present, every value
\* interpret_result returns lies between min() and max() inclusive.
C4_ResultWithinMinMax ==
  DecodedWithBounds => Within(OutputTable[pid], min(pid)[1], Val(result), max(pid)[1])

\* the raw input has all bits clear / all bits set
AllZero(t, x) ==
  CASE t = "u8" -> x = 0 [] t = "u16" -> x = 0 [] t = "u32" -> \A i \in Bits32 : x[i] = 0
AllOnes(t, x) ==
  CASE t = "u8" -> x = 255 [] t = "u16" -> x = 65535 [] t = "u32" -> \A i \in Bits32 : x[i] = 1

\* C5: for every descriptor with declared min()/max(), the all-zero input
\* decodes to min() and the all-ones input to max() (values are exact here, so
\* agreement within floating tolerance is equality).
C5_BoundaryInputsReproduceBounds ==
  DecodedWithBounds =>
    /\ AllZero(InputTable[pid], Val(input)) => Val(result) = min(pid)[1]
    /\ AllOnes(InputTable[pid], Val(input)) => Val(result) = max(pid)[1]

\* C6: for every descriptor the byte width of its Input type equals the byte
\* count declared by result_size(), or lies within the declared range.
C6_InputWidthMatchesResultSize ==
  (pid \in Pids) =>
    /\ result_size(pid).kind = "Value" => InputWidth(pid) = result_size(pid).lo
    /\ result_size(pid).kind = "Range" =>
         result_size(pid).lo <= InputWidth(pid) /\ InputWidth(pid) <= result_size(pid).hi

\* C6 witness: a four-byte descriptor has decoded a u32
C6_Witness ==
  /\ Decoded
  /\ pid = "OxygenSensorLambda1"
  /\ InputWidth(pid) = 4
  /\ result_size(pid) = Value(4)

\* C7: looking up (0x01, 0x0C) resolves to exactly one descriptor, EngineSpeed,
\* with result_size 2 bytes and unit "rpm"; a lookup that resolves returns a
\* descriptor whose mode_number and pid_number are the queried pair.
C7_LookupResolvesQueriedPair ==
  (pc = "done" /\ query # << >>) =>
    /\ (pid # NoPid) => (mode_number(pid) = query[1] /\ pid_number(pid) = query[2])
    /\ (query = <<1, 12>>) =>
         /\ outcome # "NotFound"
         /\ pid = "EngineSpeed"
         /\ Cardinality(lookup(1, 12)) = 1
         /\ result_size(pid) = Value(2)
         /\ unit(pid) = Some("rpm")

\* C7 witness: lookup(0x01, 0x0C) has returned EngineSpeed
C7_Witness ==
  /\ pc = "done"
  /\ query = <<1, 12>>
  /\ outcome = "Found"
  /\ pid = "EngineSpeed"

\* some descriptor reports the pair (m, q)
Registered(m, q) == \E p \in Pids : mode_number(p) = m /\ pid_number(p) = q

\* C8: looking up a pair no descriptor is defined for, such as (0x01, 0xFF),
\* ends NotFound and yields no descriptor and no decoded value.
C8_UnregisteredLookupNotFound ==
  (pc = "done" /\ query # << >>) =>
    /\ (~Registered(query[1], query[2])) =>
         (outcome = "NotFound" /\ pid = NoPid /\ result = NoResult)
    /\ (query = <<1, 255>>) => outcome = "NotFound"

\* C8 witness: lookup(0x01, 0xFF) has ended NotFound
C8_Witness ==
  /\ pc = "done"
  /\ query = <<1, 255>>
  /\ payload = << >>
  /\ outcome = "NotFound"
  /\ pid = NoPid

\* C9: a payload whose length differs from the descriptor's declared
\* result_size is rejected with InvalidLength before any decode runs, and no
\* value is decoded from a payload of another width than the Input type's.
C9_WrongWidthPayloadRejected ==
  (outcome \in {"Ok", "InvalidLength"}) =>
    /\ (outcome = "InvalidLength") <=> ~SizeAccepts(result_size(pid), Len(payload))
    /\ (outcome = "InvalidLength") =>
         (pc = "done" /\ result = NoResult /\ input = NoInput /\ available_pids = << >>)
    /\ (outcome = "Ok") => Len(payload) = InputWidth(pid)

\* C9 witness: a one-byte payload for the two-byte EngineSpeed was rejected
C9_Witness ==
  /\ outcome = "InvalidLength"
  /\ pid = "EngineSpeed"
  /\ Len(payload) = 1
  /\ result = NoResult

\* the bytes decode_obd_standard maps to a named standard
ObdNamedBytes == (1..13) \cup (17..21) \cup (23..26) \cup (28..33)
ObdReservedBytes == (14..16) \cup {22, 27} \cup (34..250)

\* C10: decode_obd_standard never fails on a byte: 0 gives Unknown, 14..16, 22,
\* 27 and 34..250 give Reserved, 251..255 give NotAvailableForAssignment, each
\* of the other 28 bytes gives a named standard of its own (1 gives Obd2CARB),
\* and Value(u8) is never produced.
C10_ObdStandardTable ==
  (Decoded /\ pid = "ObdStandardForThisVehicle") =>
    LET b == Val(input)
        r == Val(result)
    IN  /\ r \in ObdStandard
        /\ r[1] # "Value"
        /\ (b = 0) => r = Obd("Unknow")
        /\ (b \in ObdReservedBytes) => r = Obd("Reserved")
        /\ (b \in 251..255) => r = Obd("NotAvailableForAssignement")
        /\ (b = 1) => r = Obd("Obd2CARB")
        /\ Cardinality(ObdNamedBytes) = 28
        /\ (b \in ObdNamedBytes) =>
             /\ r[1] \notin {"Unknow", "Reserved", "NotAvailableForAssignement"}
             /\ \A y \in 0..255 : (y # b) => decode_obd_standard(y) # r

\* C10 witness: a named standard was decoded
C10_Witness ==
  /\ Decoded
  /\ pid = "ObdStandardForThisVehicle"
  /\ input = <<"u8", 33>>
  /\ result = <<"ObdStandard", Obd("HdEobd6")>>

\* the high byte (A) and the low byte (B) of a 16-bit input
HighByte(x) == x \div 256
LowByte(x)  == x % 256

\* the fuel-system status the claim assigns to one byte
FuelOfByte(b) ==
  CASE b = 0  -> "MotorOff"
    [] b = 1  -> "OpenLoopInsufficientEngineTemperature"
    [] b = 2  -> "ClosedLoopUsingOxygenSensorFeedback"
    [] b = 4  -> "OpenLoopEngineLoadOrFuelCutDueToDeceleration"
    [] b = 8  -> "OpenLoopSystemFailure"
    [] b = 16 -> "ClosedLoopFaultFeedbackSystem"
    [] b \in (0..255) \ {0, 1, 2, 4, 8, 16} -> "Unknow"

\* C11: decode_fuel_system returns a pair of statuses for every 16-bit input:
\* one element is the status of one input byte and the other element the
\* status of the other byte, where 0, 1, 2, 4, 8 and 16 give MotorOff,
\* OpenLoopInsufficientEngineTemperature, ClosedLoopUsingOxygenSensorFeedback,
\* OpenLoopEngineLoadOrFuelCutDueToDeceleration, OpenLoopSystemFailure and
\* ClosedLoopFaultFeedbackSystem and every other byte gives Unknow; each
\* element depends on its own byte only (which element reads which byte is
\* C17's matter and is left open here).
C11_FuelSystemTotalPerByte ==
  (Decoded /\ pid = "FuelSystemStatus") =>
    LET x == Val(input)
        r == Val(result)
    IN  /\ r \in FuelSystem \X FuelSystem
        /\ \/ r = << FuelOfByte(LowByte(x)), FuelOfByte(HighByte(x)) >>
           \/ r = << FuelOfByte(HighByte(x)), FuelOfByte(LowByte(x)) >>
        /\ \/ \A y \in U16Inputs :
                decode_fuel_system(y) = << FuelOfByte(LowByte(y)), FuelOfByte(HighByte(y)) >>
           \/ \A y \in U16Inputs :
                decode_fuel_system(y) = << FuelOfByte(HighByte(y)), FuelOfByte(LowByte(y)) >>

\* C11 witness: the bytes 16 and 32 decoded to a named status and to Unknow
C11_Witness ==
  /\ Decoded
  /\ pid = "FuelSystemStatus"
  /\ input = <<"u16", 16 * 256 + 32>>
  /\ "ClosedLoopFaultFeedbackSystem" \in Elems(Val(result))
  /\ "Unknow" \in Elems(Val(result))

\* the descriptors that decode with decode_celsius
CelsiusPids == {"EngineCoolantTemperature", "IntakeAirTemperature"}

\* C13: for every byte b, decode_celsius(b) = b - 40 with no wrap-around: the
\* results are exactly -40..215, 0 gives -40 and 255 gives 215, and these are
\* the min and max the coolant and intake-air temperature descriptors declare.
C13_CelsiusIsByteMinus40 ==
  (Decoded /\ pid \in CelsiusPids) =>
    LET b == Val(input)
        r == Val(result)
    IN  /\ r = b - 40
        /\ r \in -40..215
        /\ { decode_celsius(y) : y \in U8Inputs } = -40..215
        /\ decode_celsius(0) = -40
        /\ decode_celsius(255) = 215
        /\ min(pid) = Some(-40)
        /\ max(pid) = Some(215)
        /\ (b = 0) => Some(r) = min(pid)
        /\ (b = 255) => Some(r) = max(pid)

\* C13 witness: a byte below 40 decoded to a negative temperature
C13_Witness ==
  /\ Decoded
  /\ pid = "IntakeAirTemperature"
  /\ input = <<"u8", 0>>
  /\ result = <<"i16", -40>>

\* the Output types that are a status, an enumeration, a list or the unit marker
NonNumericOutputs ==
  { "(FuelSystem,FuelSystem)", "AirStatus", "ObdStandard", "State", "()", "Vec<PidLen>" }

\* the Output types that are a number or a pair of numbers
NumericOutputs == { "u8", "u16", "u32", "i16", "f64", "(f64,f64)" }

C15_AuxiliaryStatusIsTopBit ==
  (Decoded /\ pid = "AuxiliaryInputStatus") =>
    LET b == Val(input)
        r == Val(result)
    IN  /\ (r = "On") <=> (b >= 128)
        /\ (r = "Off") <=> (b < 128)
        /\ r # "Unknow"
        /\ \A y \in U8Inputs :
             (y \div 128 = b \div 128) => decode_auxiliary_input_status(y) = r

\* C15 witness: a byte with the top bit set and the lowest bit clear gave On
C15_Witness ==
  /\ Decoded
  /\ pid = "AuxiliaryInputStatus"
  /\ input = <<"u8", 128>>
  /\ result = <<"State", "On">>

\* C16: for every byte b, decode_air_status(b) is Upstream, Downstream,
\* FromTheOutsideAtmosphereOrOff or PumpCommandedOnForDiagnostics exactly when
\* b is 0x01, 0x02, 0x04 or 0x08, and Unknow for every other byte, 0 and bytes
\* with several bits set included.
C16_AirStatusSingleBitOnly ==
  (Decoded /\ pid = "CommendedSecondaryAirStatus") =>
    LET b == Val(input)
        r == Val(result)
    IN  /\ (r = "Upstream") <=> (b = 1)
        /\ (r = "Downstream") <=> (b = 2)
        /\ (r = "FromTheOutsideAtmosphereOrOff") <=> (b = 4)
        /\ (r = "PumpCommandedOnForDiagnostics") <=> (b = 8)
        /\ (r = "Unknow") <=> (b \notin {1, 2, 4, 8})
        /\ r \in AirStatus

\* C16 witness: a byte with two of the four bits set gave Unknow
C16_Witness ==
  /\ Decoded
  /\ pid = "CommendedSecondaryAirStatus"
  /\ input = <<"u8", 3>>
  /\ result = <<"AirStatus", "Unknow">>

\* C17: decode_fuel_system reads its input big-endian: the first element of
\* the returned pair is decoded from the high byte (A) and the second element
\* from the low byte (B).
C17_FuelSystemFirstFromHighByte ==
  (Decoded /\ pid = "FuelSystemStatus") =>
    /\ Val(result)[1] = interpret_one_byte_fuel(HighByte(Val(input)))
    /\ Val(result)[2] = interpret_one_byte_fuel(LowByte(Val(input)))

\* the descriptors that decode with decode_oxygen_sensor
OxygenSensorPids ==
  { "OxygenSensor1", "OxygenSensor2", "OxygenSensor3", "OxygenSensor4",
    "OxygenSensor5", "OxygenSensor6", "OxygenSensor7", "OxygenSensor8" }

\* C18: for every 16-bit input with high byte A and low byte B,
\* decode_oxygen_sensor returns voltage A/200 and trim 100*B/128 - 100 when
\* B is not 255, and trim 0 when B = 255; the voltage lies in 0..1.275 and the
\* trim in -100..99.2; the voltage depends on A only and the trim on B only.
C18_OxygenSensorVoltageAndTrim ==
  (Decoded /\ pid \in OxygenSensorPids) =>
    LET A == HighByte(Val(input))
        B == LowByte(Val(input))
        voltage == Val(result)[1]
        trim == Val(result)[2]
    IN  /\ voltage = F64(A, 200)
        /\ (B # 255) => trim = F64(100 * B - 100 * 128, 128)
        /\ (B = 255) => trim = F64(0, 1)
        /\ F64Le(F64(0, 1), voltage) /\ F64Le(voltage, F64(1275, 1000))
        /\ F64Le(F64(-100, 1), trim) /\ F64Le(trim, F64(992, 10))
        /\ \A y \in U16Inputs :
             /\ (HighByte(y) = A) => decode_oxygen_sensor(y)[1] = voltage
             /\ (LowByte(y) = B) => decode_oxygen_sensor(y)[2] = trim

\* C18 witness: the all-ones input gave the top voltage and the special trim
C18_Witness ==
  /\ Decoded
  /\ pid = "OxygenSensor1"
  /\ input = <<"u16", 65535>>
  /\ result = <<"(f64,f64)", << F64(1275, 1000), F64(0, 1) >> >>

\* a < b on f64
F64Lt(a, b) == a.num * b.den < b.num * a.den

\* C19: for every 16-bit input with high byte A and low byte B, decode_rpm
\* returns (256*A + B)/4; the intermediate sum 256*A + B (and its first term)
\* never exceeds 65535; the result lies in 0..16383.75 and is strictly
\* increasing in the input.
C19_RpmIsQuarterOfInput ==
  (Decoded /\ pid = "EngineSpeed") =>
    LET x == Val(input)
        r == Val(result)
    IN  /\ r = F64(256 * HighByte(x) + LowByte(x), 4)
        /\ Shr(x, 8) * 256 <= 65535
        /\ RpmSum(x) <= 65535
        /\ RpmSum(x) = 256 * HighByte(x) + LowByte(x)
        /\ F64Le(F64(0, 1), r) /\ F64Le(r, F64(1638375, 100))
        /\ \A y \in U16Inputs :
             /\ (y < x) => F64Lt(decode_rpm(y), r)
             /\ (y > x) => F64Lt(r, decode_rpm(y))

\* C19 witness: the largest input gave the largest value
C19_Witness ==
  /\ Decoded
  /\ pid = "EngineSpeed"
  /\ input = <<"u16", 65535>>
  /\ result = <<"f64", F64(1638375, 100)>>

\* C20: for every 16-bit input, the value the MAFSensor descriptor returns lies
\* in the declared MAF range 0..655.35 grams/sec.
C20_MafWithinDeclaredRange ==
  (Decoded /\ pid = "MAFSensor") =>
    /\ min(pid) = Some(F64(0, 1))
    /\ max(pid) = Some(F64(65535, 100))
    /\ unit(pid) = Some("grams/sec")
    /\ F64Le(F64(0, 1), Val(result))
    /\ F64Le(Val(result), F64(65535, 100))

\* C21: for every 32-bit input and every block base in 0..7, every PID number
\* decode_available_pids computes as offset + 1 + 32*block_base is at most
\* 255, so the computation never overflows the one-byte PID type (no push
\* wraps and none panics).
C21_PidFitsOneByte ==
  /\ pc # "panic"
  /\ (pc = "unpack" /\ offset <= 31 /\ pid_offset \in 0..7
        /\ BitIsSet(Val(input), offset)) =>
       /\ offset + 1 + 32 * pid_offset <= PidLenMax
       /\ ~PidOverflows(offset, pid_offset)

\* the number of set bits of a 32-bit word
PopCount(w) == Cardinality({ i \in Bits32 : w[i] = 1 })

\* the word with bit 32 - (p - 32*b) set for every p of the list, no other
Reconstruct(pids, b) ==
  [ i \in Bits32 |->
      IF \E j \in 1..Len(pids) : 32 - (pids[j] - 32 * b) = i THEN 1 ELSE 0 ]

\* C22: for a block base b in 0..6 decode_available_pids is lossless: the
\* returned list has as many entries as the input has set bits (none for 0,
\* 32 for 0xFFFFFFFF), setting bit 32 - (p - 32*b) for every returned p gives
\* back the input, and no other input yields the same list.
C22_UnpackIsLossless ==
  (UnpackDone /\ pid_offset <= 6) =>
    LET w == Val(input)
        r == Val(result)
    IN  /\ Len(r) = PopCount(w)
        /\ AllZero("u32", w) => r = << >>
        /\ AllOnes("u32", w) => Len(r) = 32
        /\ Reconstruct(r, pid_offset) = w
        /\ r = decode_available_pids(w, pid_offset)
        /\ \A w2 \in BitmapWords :
             (w2 # w) => decode_available_pids(w2, pid_offset) # r

\* C22 witness: AvailablePids40 unpacked the example word, whose lowest bit is set
C22_Witness ==
  /\ UnpackDone
  /\ pid = "AvailablePids40"
  /\ pid_offset = 1
  /\ Val(input) = ExampleWord
  /\ Len(Val(result)) = 17
  /\ Val(result)[17] = 64

=============================================================================
